---- MODULE Spec2Model ----
(***************************************************************************)
(* School Meal Image Generator (src/app.py): the generation client         *)
(* generate_image_pollinations, the batch loop of the "Generate Images"    *)
(* handler, and the session store kept in st.session_state.                *)
(*                                                                         *)
(* Abstractions.  The prompt is fixed during a script run and no operation *)
(* modelled here branches on it, so prompt, food and style are left out of *)
(* the records.  The wall clock is an integer number of milliseconds       *)
(* (int(time.time() * 1000)), counted from an instant that is a multiple   *)
(* of SeedModulus, which preserves every residue the seed derivation       *)
(* uses.  A response body is described by its length, by whether          *)
(* Image.open identifies it and by whether its pixel data decodes when     *)
(* the image is displayed (Image.open itself reads the header only).       *)
(***************************************************************************)
EXTENDS Integers, Sequences, FiniteSets, TLC

\* ------------------------------------------------------------------ bounds
MaxVariations == 2
MaxBatches == 2

\* ------------------------------------------------------- program constants
SliderMin == 1
SliderMax == 6
SeedModulus == 999999
SeedStride == 1337
MinImageBytes == 500
HTTP_OK == 200

\* ------------------------------------------------------------ value tokens
None == "None"
Image == "Image"
BrokenImage == "BrokenImage"
Absent == -1
NoType == "absent"
Unset == -1

\* ---------------------------------------------------------------- helpers
Min(a, b) == IF a <= b THEN a ELSE b

\* ------------------------------------------------- transport outcome space
\* What requests.get(...) and the reading of the response can do.  `raised`
\* names the exception class raised by the transport, "none" when a
\* response was obtained.
TransportExceptions == {"ReadTimeout", "ConnectTimeout", "ConnectionError", "TooManyRedirects"}

\* requests.exceptions class hierarchy: ConnectTimeout derives from both
\* ConnectionError and Timeout.
IsTimeout(exc) == exc \in {"ReadTimeout", "ConnectTimeout"}

IsConnectionError(exc) == exc \in {"ConnectionError", "ConnectTimeout"}

Raised(exc) ==
  [raised |-> exc, status_code |-> Absent, content_type |-> NoType,
   content_length |-> Absent, openable |-> FALSE, displayable |-> FALSE]

Response(code, ctype, len, ok) ==
  [raised |-> "none", status_code |-> code, content_type |-> ctype,
   content_length |-> len, openable |-> ok, displayable |-> ok]

\* A 200 response whose body Image.open identifies (valid header) but whose
\* pixel data is truncated or corrupt.
Truncated(ctype, len) ==
  [raised |-> "none", status_code |-> HTTP_OK, content_type |-> ctype,
   content_length |-> len, openable |-> TRUE, displayable |-> FALSE]

ContentTypes == {"image/png", "image/jpeg", "text/html", "unknown", "IMAGE/PNG"}

StatusCodes == {200, 429, 500}

BodyLengths == {0, 500, 501, 4000}

AllTransports ==
  {Raised(e) : e \in TransportExceptions}
    \cup {Response(c, t, l, o) : c \in StatusCodes, t \in ContentTypes,
                                  l \in BodyLengths, o \in BOOLEAN}
    \cup {Truncated(t, l) : t \in ContentTypes, l \in BodyLengths}

OkImage == Response(200, "image/png", 4000, TRUE)

\* One transport outcome for each return statement of the client, the
\* undecodable image and the image that is identified but does not decode.
SessionTransports ==
  { Raised("ReadTimeout"), Raised("ConnectionError"), Raised("TooManyRedirects"),
    Response(429, "text/html", 4000, FALSE),
    Response(200, "text/html", 4000, FALSE),
    Response(200, "image/png", 4000, FALSE),
    Truncated("image/png", 4000),
    OkImage }

\* What the remote service does during one session: the successful image
\* and one of the other outcomes.
ServiceModes == {{OkImage, f} : f \in SessionTransports \ {OkImage}}

SeedTransports ==
  { Response(500, "text/html", 0, FALSE), Response(200, "image/jpeg", 4000, TRUE) }

\* ------------------------------------------------------- generation client
\* `"image" in content_type`: a case-sensitive substring test.
HasImage(ctype) == ctype \in {"image/png", "image/jpeg"}

SizeOkInclusive(len) == len >= MinImageBytes

\* `content_length > 500`
SizeOk(len) == len > MinImageBytes

\* debug = {"url": ..., "seed": seed}; the other keys are added later.
InitialDebug(seed) ==
  [seed |-> seed, status_code |-> Absent, content_type |-> NoType,
   content_length |-> Absent, response_preview |-> FALSE]

\* f"{type(e).__name__}: ..." of the catch-all clause.
ExcMessage(exc) ==
  CASE exc = "TooManyRedirects" -> "TooManyRedirects:"
    [] exc = "UnidentifiedImageError" -> "UnidentifiedImageError:"
    [] OTHER -> "Exception:"

ExceptClausesNarrow(exc, debug) ==
  IF IsTimeout(exc)
    THEN [img |-> None, status_msg |-> "Timed out", debug |-> debug, line |-> 195]
    ELSE IF IsConnectionError(exc)
      THEN [img |-> None, status_msg |-> "Connection failed", debug |-> debug, line |-> 197]
      ELSE IF exc \in TransportExceptions
        THEN [img |-> None, status_msg |-> ExcMessage(exc), debug |-> debug, line |-> 199]
        ELSE [img |-> None, status_msg |-> "Unhandled", debug |-> debug, line |-> 0]

\* The three except clauses, tried in source order.  `line` is the line of
\* the return statement that produced the result.
ExceptClauses(exc, debug) ==
  IF IsTimeout(exc)
    THEN [img |-> None, status_msg |-> "Timed out", debug |-> debug, line |-> 195]
    ELSE IF IsConnectionError(exc)
      THEN [img |-> None, status_msg |-> "Connection failed", debug |-> debug, line |-> 197]
      ELSE [img |-> None, status_msg |-> ExcMessage(exc), debug |-> debug, line |-> 199]

generate_image_pollinations(seed, tr) ==
  LET debug0 == InitialDebug(seed)
      debug1 == [debug0 EXCEPT !.status_code = tr.status_code,
                               !.content_type = tr.content_type,
                               !.content_length = tr.content_length]
  IN IF tr.raised # "none"
       THEN ExceptClauses(tr.raised, debug0)
       ELSE IF tr.status_code = HTTP_OK /\ HasImage(tr.content_type)
                 /\ SizeOk(tr.content_length)
         THEN IF tr.openable
                THEN [img |-> IF tr.displayable THEN Image ELSE BrokenImage,
                      status_msg |-> "Success", debug |-> debug1, line |-> 185]
                ELSE ExceptClauses("UnidentifiedImageError", debug1)
         ELSE IF tr.status_code = HTTP_OK
           THEN [img |-> None, status_msg |-> "Got HTTP 200 but content is not an image",
                 debug |-> [debug1 EXCEPT !.response_preview = TRUE], line |-> 190]
           ELSE [img |-> None, status_msg |-> "HTTP", debug |-> debug1, line |-> 192]

NoResult == [img |-> None, status_msg |-> "", debug |-> InitialDebug(Unset), line |-> 0]

NoTransport == Raised("none")

\* ------------------------------------------------------------------- state
VARIABLES
  generated_images,   \* st.session_state.generated_images
  generation_count,   \* st.session_state.generation_count
  debug_logs,         \* st.session_state.debug_logs
  pc,                 \* position of the script: "ready"; in a batch "status"
                      \* (line 362), "loop" (line 380), "request" (about to
                      \* call, line 389), "logged" (line 401), "summary"
                      \* (line 423); "done", "cleared", "stopped", "crashed"
                      \* after a run; "call"/"returned" for a lone client call
  num_variations,     \* slider value of the running batch
  i,                  \* loop variable; num_variations once the loop is over
  generated_batch,    \* local list of the run
  batch_logs,         \* local list of the run
  success_count,      \* local, bound after the loop
  fail_count,         \* local, bound after the loop
  now,                \* int(time.time() * 1000) at the last clock read
  seed,               \* seed of the last client call
  transport,          \* what the transport did in the last client call
  result,             \* what the last client call returned
  batch,              \* history: number of batches started
  calls,              \* history: every client call issued, in order
  pre_images,         \* history: generated_images when the batch started
  pre_logs,           \* history: debug_logs when the batch started
  pre_count,          \* history: generation_count when the batch started
  progress,           \* value last given to the progress bar, a fraction
  service             \* environment: the transport outcomes of this session

vars ==
  << generated_images, generation_count, debug_logs, pc, num_variations, i,
     generated_batch, batch_logs, success_count, fail_count, now, seed,
     transport, result, batch, calls, pre_images, pre_logs, pre_count,
     progress, service >>

session == << generated_images, generation_count, debug_logs >>

locals == << num_variations, i, generated_batch, batch_logs, success_count, fail_count >>

history == << batch, calls, pre_images, pre_logs, pre_count >>

\* Clock advances between two reads of time.time(), in milliseconds.
SessionTicks == {1337}

SeedTicks == {0, 1337, SeedModulus - SeedStride}

GenSeeds == {0, SeedModulus - 1 + SeedStride}

\* ------------------------------------------------------------ batch loop
\* seed = int(time.time() * 1000) % 999999 + i * 1337
SeedOf(clock, idx) == (clock % SeedModulus) + idx * SeedStride

\* `if img:`
Truthy(img) == img # None

\* st.image(img, ...) at line 404 decodes the pixel data and raises when it
\* cannot.
Displayable(img) == img = Image

\* `for i in range(num_variations)`: the next iteration, whatever the
\* outcome of this one.
NextIndex(idx, img) == idx + 1

\* No progress bar exists before the first run.
NoProgress == [num |-> Unset, den |-> 1]

\* progress_bar = st.progress(0, ...)
ProgressInitial == [num |-> 0, den |-> 1]

ProgressAfterAttempt(idx, n) == [num |-> idx + 1, den |-> n]

\* progress_bar.progress(i / num_variations, ...), first statement of the
\* iteration.
ProgressOfIteration(idx, n) == [num |-> idx, den |-> n]

\* progress_bar.progress(1.0, ...)
ProgressDone == [num |-> 1, den |-> 1]

LogEntryZeroBased(idx, res) ==
  [variation |-> idx, status |-> res.status_msg, debug |-> res.debug]

\* log_entry; "time" and "elapsed" are display strings and are left out.
LogEntry(idx, res) ==
  [variation |-> idx + 1, status |-> res.status_msg, debug |-> res.debug]

\* The record appended to generated_batch; `batch` and `index` are history
\* fields telling when the record was generated, the display strings are
\* left out.
ImageRecord(res, sd, b, idx) ==
  [image |-> res.img, seed |-> sd, batch |-> b, index |-> idx]

SaveLogsOnlyBatch(blogs, stored) == blogs

\* st.session_state.debug_logs = batch_logs + st.session_state.debug_logs
SaveLogs(blogs, stored) == blogs \o stored

SaveImagesAppended(gbatch, stored) == stored \o gbatch

\* st.session_state.generated_images = generated_batch + st.session_state.generated_images
SaveImages(gbatch, stored) == gbatch \o stored

Init ==
  /\ generated_images = << >>
  /\ generation_count = 0
  /\ debug_logs = << >>
  /\ pc = "ready"
  /\ num_variations = Unset
  /\ i = 0
  /\ generated_batch = << >>
  /\ batch_logs = << >>
  /\ success_count = Unset
  /\ fail_count = Unset
  /\ now = 0
  /\ seed = Unset
  /\ transport = NoTransport
  /\ result = NoResult
  /\ batch = 0
  /\ calls = << >>
  /\ pre_images = << >>
  /\ pre_logs = << >>
  /\ pre_count = 0
  /\ progress = NoProgress
  /\ service \in ServiceModes

\* "Generate Images" clicked with a food description: lines 354-360, a new
\* script run in which no progress bar exists yet.
Generate(n) ==
  /\ pc \in {"ready", "done", "cleared", "stopped", "crashed"}
  /\ batch < MaxBatches
  /\ n \in SliderMin .. Min(SliderMax, MaxVariations)
  /\ pc' = "status"
  /\ num_variations' = n
  /\ i' = 0
  /\ generated_batch' = << >>
  /\ batch_logs' = << >>
  /\ success_count' = Unset
  /\ fail_count' = Unset
  /\ batch' = batch + 1
  /\ pre_images' = generated_images
  /\ pre_logs' = debug_logs
  /\ pre_count' = generation_count
  /\ progress' = NoProgress
  /\ UNCHANGED << session, now, seed, transport, result, calls, service >>

\* The head of the status block, lines 362-378: the texts, the warning and
\* the progress bar, created at 0.
OpenStatus ==
  /\ pc = "status"
  /\ progress' = ProgressInitial
  /\ pc' = "loop"
  /\ UNCHANGED << session, locals, now, seed, transport, result, history, service >>

\* Start of an iteration, lines 380-387: the progress report, the clock
\* read (the clock has advanced by d since its last read) and the seed.
StartVariation(d) ==
  /\ pc = "loop"
  /\ i < num_variations
  /\ progress' = ProgressOfIteration(i, num_variations)
  /\ now' = now + d
  /\ seed' = SeedOf(now', i)
  /\ pc' = "request"
  /\ UNCHANGED << session, locals, transport, result, history, service >>

\* The blocking client call and the log entry, lines 389-399: the
\* transport does tr.
ClientCall(tr) ==
  /\ pc = "request"
  /\ transport' = tr
  /\ result' = generate_image_pollinations(seed, tr)
  /\ calls' = Append(calls, [batch |-> batch, index |-> i, clock |-> now, seed |-> seed])
  /\ batch_logs' = Append(batch_logs, LogEntry(i, result'))
  /\ pc' = "logged"
  /\ UNCHANGED << session, num_variations, i, generated_batch, success_count,
                  fail_count, now, seed, batch, pre_images, pre_logs, pre_count,
                  progress, service >>

\* The rest of the iteration, lines 401-416.  st.image raises on an image
\* whose data does not decode: the exception leaves the script, the run ends
\* before lines 405-414 and before the save.
RecordOutcome ==
  /\ pc = "logged"
  /\ IF Truthy(result.img) /\ ~Displayable(result.img)
       THEN /\ pc' = "crashed"
            /\ UNCHANGED << i, generated_batch, generation_count >>
       ELSE /\ pc' = "loop"
            /\ i' = NextIndex(i, result.img)
            /\ IF Truthy(result.img)
                 THEN /\ generated_batch' =
                           Append(generated_batch, ImageRecord(result, seed, batch, i))
                      /\ generation_count' = generation_count + 1
                 ELSE /\ generated_batch' = generated_batch
                      /\ generation_count' = generation_count
  /\ UNCHANGED << generated_images, debug_logs, num_variations, batch_logs,
                  success_count, fail_count, now, seed, transport, result, history,
                  progress, service >>

\* After the loop, lines 418-421: the last progress report and the summary
\* counts.
Summarise ==
  /\ pc = "loop"
  /\ i >= num_variations
  /\ progress' = ProgressDone
  /\ success_count' = Len(generated_batch)
  /\ fail_count' = num_variations - success_count'
  /\ pc' = "summary"
  /\ UNCHANGED << session, num_variations, i, generated_batch, batch_logs, now, seed,
                  transport, result, history, service >>

\* The summary messages and the status label, then the save after the
\* status block: lines 423-454.
SaveBatch ==
  /\ pc = "summary"
  /\ debug_logs' = SaveLogs(batch_logs, debug_logs)
  /\ generated_images' = SaveImages(generated_batch, generated_images)
  /\ pc' = "done"
  /\ UNCHANGED << generation_count, locals, now, seed, transport, result, history,
                  progress, service >>

ClearKeepsCount ==
  /\ pc \in {"ready", "done", "cleared", "stopped", "crashed"}
  /\ generated_images' = << >>
  /\ debug_logs' = << >>
  /\ pc' = "cleared"
  /\ UNCHANGED << generation_count, locals, now, seed, transport, result, history,
                  progress, service >>

\* "Clear All" clicked: lines 343-348.
Clear ==
  /\ pc \in {"ready", "done", "cleared", "stopped", "crashed"}
  /\ generated_images' = << >>
  /\ generation_count' = 0
  /\ debug_logs' = << >>
  /\ pc' = "cleared"
  /\ UNCHANGED << locals, now, seed, transport, result, history, progress, service >>

\* The script run is stopped inside the status block, before line 453, at
\* one of its st.* calls (a widget interaction reruns the script): in the
\* head of the block (362-376), at the top of an iteration or at the last
\* progress report (378, 382, 418), before the call (387) or after it (402,
\* 404, 416), or after the counts (423-450).  Nothing is saved,
\* st.session_state keeps what the iterations wrote.
StopRun ==
  /\ pc \in {"status", "loop", "request", "logged", "summary"}
  /\ pc' = "stopped"
  /\ UNCHANGED << session, locals, now, seed, transport, result, history, progress,
                  service >>

Next ==
  \/ \E n \in SliderMin .. SliderMax : Generate(n)
  \/ OpenStatus
  \/ \E d \in SessionTicks : StartVariation(d)
  \/ \E tr \in service : ClientCall(tr)
  \/ RecordOutcome
  \/ Summarise
  \/ SaveBatch
  \/ Clear
  \/ StopRun

Spec == Init /\ [][Next]_vars

\* The batch loop with the clock advancing by any of SeedTicks.
SeedNext ==
  \/ \E n \in SliderMin .. SliderMax : Generate(n)
  \/ OpenStatus
  \/ \E d \in SeedTicks : StartVariation(d)
  \/ \E tr \in SeedTransports : ClientCall(tr)
  \/ RecordOutcome
  \/ Summarise
  \/ SaveBatch
  \/ Clear
  \/ StopRun

SeedSpec == Init /\ [][SeedNext]_vars

\* Script runs that no user interaction stops and in which every client
\* call returns.
LiveNext ==
  \/ \E n \in SliderMin .. SliderMax : Generate(n)
  \/ OpenStatus
  \/ \E d \in SessionTicks : StartVariation(d)
  \/ \E tr \in service : ClientCall(tr)
  \/ RecordOutcome
  \/ Summarise
  \/ SaveBatch
  \/ Clear

LiveSpec ==
  /\ Init
  /\ [][LiveNext]_vars
  /\ WF_vars(OpenStatus)
  /\ WF_vars(\E d \in SessionTicks : StartVariation(d))
  /\ WF_vars(\E tr \in service : ClientCall(tr))
  /\ WF_vars(RecordOutcome)
  /\ WF_vars(Summarise)
  /\ WF_vars(SaveBatch)

\* One call of the generation client on any transport outcome.
GenInit ==
  /\ generated_images = << >>
  /\ generation_count = 0
  /\ debug_logs = << >>
  /\ pc = "call"
  /\ num_variations = Unset
  /\ i = 0
  /\ generated_batch = << >>
  /\ batch_logs = << >>
  /\ success_count = Unset
  /\ fail_count = Unset
  /\ now = 0
  /\ seed \in GenSeeds
  /\ transport \in AllTransports
  /\ result = NoResult
  /\ batch = 0
  /\ calls = << >>
  /\ pre_images = << >>
  /\ pre_logs = << >>
  /\ pre_count = 0
  /\ progress = NoProgress
  /\ service = AllTransports

GenCall ==
  /\ pc = "call"
  /\ result' = generate_image_pollinations(seed, transport)
  /\ pc' = "returned"
  /\ UNCHANGED << session, locals, now, seed, transport, history, progress, service >>

GenNext == GenCall

GenSpec == GenInit /\ [][GenNext]_vars

\* ================================================================ claims
NumSuccess(logs) == Cardinality({j \in 1 .. Len(logs) : logs[j].status = "Success"})

CallsOfBatch == SelectSeq(calls, LAMBDA c : c.batch = batch)

BatchStart(b) ==
  LET j == CHOOSE k \in 1 .. Len(calls) : calls[k].batch = b /\ calls[k].index = 0
  IN calls[j].clock

DecodeFails(t) ==
  /\ t.raised = "none"
  /\ t.status_code = 200
  /\ t.content_type \in {"image/png", "image/jpeg"}
  /\ t.content_length > 500
  /\ ~t.openable

\* C1: in every reachable state generation_count equals the number of
\* records held in generated_images.
C1_CountEqualsRecords == generation_count = Len(generated_images)

\* C2: within one batch the seeds given to the variations are pairwise
\* distinct, for every non-decreasing sequence of clock values.
C2_SeedsDistinctInBatch ==
  \A a, b \in 1 .. Len(batch_logs) :
    a # b => batch_logs[a].debug.seed # batch_logs[b].debug.seed

\* C3: no seed of a batch started at a strictly later clock value equals a
\* seed of an earlier batch of the session.
C3_SeedsDistinctAcrossBatches ==
  \A x, y \in 1 .. Len(calls) :
    (calls[x].batch < calls[y].batch
       /\ BatchStart(calls[x].batch) < BatchStart(calls[y].batch))
      => calls[x].seed # calls[y].seed

\* C4: the client returns exactly one outcome, chosen in the priority order
\* timeout, connection failure, other exception, status other than 200,
\* status 200 without an image content-type or with at most 500 bytes
\* (with a body preview), decodable image (success, non-null image); a
\* failure carries a null image.
C4_Classification ==
  pc = "returned" =>
    LET t == transport
        r == result
        isImg == t.content_type \in {"image/png", "image/jpeg"}
    IN /\ r.debug.seed = seed
       /\ r.line \in {185, 190, 192, 195, 197, 199}
       /\ (t.raised \in {"ReadTimeout", "ConnectTimeout"})
            => (r.line = 195 /\ r.status_msg = "Timed out")
       /\ (t.raised = "ConnectionError")
            => (r.line = 197 /\ r.status_msg = "Connection failed")
       /\ (t.raised = "TooManyRedirects")
            => (r.line = 199 /\ r.status_msg = "TooManyRedirects:")
       /\ (t.raised = "none" /\ t.status_code # 200)
            => (r.line = 192 /\ r.status_msg = "HTTP"
                  /\ r.debug.status_code = t.status_code)
       /\ (t.raised = "none" /\ t.status_code = 200
             /\ (~isImg \/ t.content_length <= 500))
            => (r.line = 190 /\ r.debug.response_preview
                  /\ r.status_msg = "Got HTTP 200 but content is not an image")
       /\ (t.raised = "none" /\ t.status_code = 200 /\ isImg
             /\ t.content_length > 500 /\ t.openable)
            => (r.line = 185 /\ r.status_msg = "Success" /\ r.img # None)
       /\ (r.line # 185) => (r.img = None)

C4_Witness ==
  /\ pc = "returned"
  /\ transport.raised = "none"
  /\ transport.status_code = 200
  /\ transport.content_type = "image/png"
  /\ transport.content_length = 500
  /\ result.line = 190

\* C5 (as stated): an undecodable image body yields a failure whose kind is
\* its own, separate from the kind given to other exceptions and from
\* InvalidPayload.
C5_DecodeErrorOwnKind ==
  (pc = "returned" /\ DecodeFails(transport)) =>
    /\ result.img = None
    /\ result.line # 190
    /\ \A e \in TransportExceptions :
         result.line # generate_image_pollinations(seed, Raised(e)).line

\* C5 (amended): an undecodable image body yields a failure with a null
\* image, produced by the catch-all except clause that also handles every
\* other exception (the Unknown kind); its message names the exception
\* type and no body preview is recorded.
C5_DecodeErrorIsUnknown ==
  (pc = "returned" /\ DecodeFails(transport)) =>
    /\ result.img = None
    /\ result.line = 199
    /\ result.line = generate_image_pollinations(seed, Raised("TooManyRedirects")).line
    /\ result.status_msg = "UnidentifiedImageError:"
    /\ ~result.debug.response_preview
    /\ result.debug.status_code = 200

C5_Witness ==
  /\ pc = "returned"
  /\ DecodeFails(transport)
  /\ result.line = 199

\* C6: a started batch of N variations issues exactly N client calls, one
\* per index in the order 0..N-1, one after the other and none repeated; no
\* failure outcome stops the remaining variations; the batch reaches
\* completion when every call returns.  Stated of the runs that have ended
\* without a user interaction stopping them: all N calls were issued, in
\* index order, and the run ended by completing.
C6_RunsAllVariations ==
  pc \in {"done", "crashed"} =>
    /\ Len(CallsOfBatch) = num_variations
    /\ \A j \in 1 .. Len(CallsOfBatch) : CallsOfBatch[j].index = j - 1
    /\ pc = "done"

\* C7: at the completion of a batch of N variations of which k succeeded,
\* success_count = k, fail_count = N - k, batch_logs has N entries with
\* variation numbers 1..N in order, and the batch contributes k records.
C7_BatchSummary ==
  /\ pc \in {"summary", "done"} =>
       LET N == num_variations
           k == NumSuccess(batch_logs)
       IN /\ success_count = k
          /\ fail_count = N - k
          /\ Len(batch_logs) = N
          /\ \A j \in 1 .. Len(batch_logs) : batch_logs[j].variation = j
          /\ Len(generated_batch) = k
  /\ pc = "done" =>
       Len(generated_images) = Len(pre_images) + NumSuccess(batch_logs)

C7_Witness ==
  /\ pc = "done"
  /\ num_variations >= 2
  /\ success_count = 1
  /\ fail_count >= 1
  /\ Len(pre_images) >= 1

\* C8: after the clear action the records are empty, generation_count is 0
\* and the debug log is empty, whatever the state before it.
C8_ClearResets ==
  pc = "cleared" =>
    /\ generated_images = << >>
    /\ generation_count = 0
    /\ debug_logs = << >>

C8_Witness ==
  /\ pc = "cleared"
  /\ success_count >= 1
  /\ fail_count >= 1
  /\ generation_count = 0

\* C9 (as stated): of any two records, the one generated later (a later
\* batch, or a higher variation index in the same batch) stands earlier.
C9_NewestFirst ==
  \A p, q \in 1 .. Len(generated_images) :
    p < q =>
      LET a == generated_images[p]
          b == generated_images[q]
      IN a.batch > b.batch \/ (a.batch = b.batch /\ a.index > b.index)

\* C9 (amended): the records are ordered newest batch first; within one
\* batch they stand in generation order, the lower variation index first.
C9_NewestBatchFirst ==
  \A p, q \in 1 .. Len(generated_images) :
    p < q =>
      LET a == generated_images[p]
          b == generated_images[q]
      IN a.batch > b.batch \/ (a.batch = b.batch /\ a.index < b.index)

C9_Witness ==
  /\ pc = "done"
  /\ Len(generated_images) >= 3
  /\ generated_images[1].batch = generated_images[2].batch
  /\ generated_images[2].batch > generated_images[3].batch

\* C10: when a batch completes, the records and debug entries that existed
\* before it are still there, unmodified and in order, as a suffix; the
\* batch's successful records and its N debug entries stand before them as
\* one block in index order; a failed attempt adds no record and leaves
\* generation_count alone.
C10_AppendOnly ==
  /\ pc \in {"status", "loop", "summary", "done"} =>
       /\ generation_count = pre_count + NumSuccess(batch_logs)
       /\ Len(generated_batch) = NumSuccess(batch_logs)
  /\ (pc = "logged" /\ result.img = None) =>
       /\ generation_count = pre_count + NumSuccess(batch_logs)
       /\ Len(generated_batch) = NumSuccess(batch_logs)
  /\ pc \in {"status", "loop", "request", "logged", "summary"} =>
       (generated_images = pre_images /\ debug_logs = pre_logs)
  /\ pc = "done" =>
       LET N == num_variations
           k == Len(generated_images) - Len(pre_images)
       IN /\ Len(debug_logs) = N + Len(pre_logs)
          /\ SubSeq(debug_logs, N + 1, Len(debug_logs)) = pre_logs
          /\ \A j \in 1 .. N : debug_logs[j].variation = j
          /\ k = NumSuccess(SubSeq(debug_logs, 1, N))
          /\ SubSeq(generated_images, k + 1, Len(generated_images)) = pre_images
          /\ \A j \in 1 .. k : generated_images[j].batch = batch
          /\ \A a, b \in 1 .. k :
               a < b => generated_images[a].index < generated_images[b].index

C10_Witness ==
  /\ pc = "done"
  /\ Len(pre_images) >= 1
  /\ Len(pre_logs) >= 2
  /\ success_count >= 1
  /\ fail_count >= 1

\* Fractions a and b compared by cross-multiplication.
FractionLeq(a, b) == a.num * b.den <= b.num * a.den

FractionIs(a, n, d) == a.num * d = n * a.den

\* C11 (as stated): once the attempt with index i has returned, the
\* reported fraction is (i+1)/N; the fraction never decreases during the
\* batch and is 1 when the batch completes.
C11_ProgressAfterAttempt ==
  /\ (pc = "logged") => FractionIs(progress, i + 1, num_variations)
  /\ (pc = "loop" /\ i >= 1) => FractionIs(progress, i, num_variations)
  /\ (pc \in {"summary", "done"}) => FractionIs(progress, 1, 1)

\* C11 (amended), state part: progress is reported at the start of each
\* attempt, so while the attempt with index i runs and once it has returned
\* the reported fraction is i/N, it is 0 before the first attempt starts,
\* and 1 when the batch completes.
C11_ProgressOfStartedAttempt ==
  /\ (pc = "loop" /\ i = 0) => FractionIs(progress, 0, 1)
  /\ (pc \in {"request", "logged"}) => FractionIs(progress, i, num_variations)
  /\ (pc = "loop" /\ i >= 1) => FractionIs(progress, i - 1, num_variations)
  /\ (pc \in {"summary", "done"}) => FractionIs(progress, 1, 1)

\* C11 (amended), step part: the reported fraction never decreases during
\* the batch.
C11_ProgressMonotone ==
  (pc \in {"loop", "request", "logged", "summary"}
     /\ pc' \in {"loop", "request", "logged", "summary", "done"})
    => FractionLeq(progress, progress')

\* C11 (amended): the fraction reported is i/N from the start of the
\* attempt with index i until the next report, it never decreases during
\* the batch and is 1 when the batch completes.
C11_ProgressBeforeAttempt ==
  /\ []C11_ProgressOfStartedAttempt
  /\ [][C11_ProgressMonotone]_vars

C11_Witness ==
  /\ pc = "logged"
  /\ num_variations >= 2
  /\ i = num_variations - 1
  /\ result.img # None
  /\ progress.num = num_variations - 1
  /\ progress.den = num_variations

====
